---- MODULE Spec2Model ----
(***************************************************************************)
(* TSCoDe: model of the steric clash detector (compenetration_check), the  *)
(* ensemble deduplication engine (prune_conformers) and the RMSD metric    *)
(* (rmsd_py) of src/_fallback.py, and of the density voxelizer             *)
(* (Density_object.compute_CoDe and write_cubefile) of src/rdkit_Class.py, *)
(* and of the keyword dispatcher (OptionSetter) of                         *)
(* src/tscode/embedder_options.py.                                         *)
(*                                                                         *)
(* Python sequences are 0-based, TLA+ sequences are 1-based: element p of  *)
(* a Python array is element p+1 here, and a Python slice a[lo:hi] is      *)
(* SubSeq(a, lo+1, hi).                                                    *)
(***************************************************************************)
EXTENDS Integers, Sequences, FiniteSets, TLC

VARIABLES
    \* ---- compenetration_check ----
    coords,        \* flat sequence of atom positions (3-vectors)
    ids,           \* fragment boundary sequence (atom counts)
    thresh,        \* distance threshold, in half length units (3 is 1.5)
    max_clashes,   \* tolerated number of clashes
    verdict,       \* "pending" | "True" | "False" | "IndexError"
    \* ---- prune_conformers ----
    structures,    \* the ensemble handed to prune_conformers
    k,             \* number of shards
    max_rmsd,      \* RMSD threshold
    sequence,      \* permutation drawn by np.random.permutation (k != 1)
    shard_mask,    \* np.concatenate(mask_out), before the inverse permutation
    mask,          \* returned keep-mask
    subset,        \* returned structures[mask]
    status,        \* "pending" | "ok" | "IndexError"
    prev_mask,     \* keep-mask returned by the previous call on the same input
    prev_status,   \* outcome of the previous call
    calls,         \* number of calls made on this input
    reordered,     \* the ensemble in another order, handed to the second call
    \* ---- Density_object.compute_CoDe ----
    atomcoords,    \* self.atomcoords: conformers, each a sequence of atoms
    energies,      \* self.energies: one relative energy per conformer
    stamp_size,    \* stamp_size argument, in half voxels
    box_shape,     \* shape of self.box
    box,           \* self.box: numerators of the cell values
    box_div,       \* common denominator of the cell values of self.box
    code_status,   \* "pending" | "ok" | "nan" | "ValueError"
    attrs,         \* attributes of self that compute_CoDe has assigned so far
    ensemble_origin, \* self.ensemble_origin, in half voxels
    \* ---- Density_object.write_cubefile ----
    cube_file,     \* the file named cubename: existence and lines
    write_status,  \* "pending" | "ok" | "Exception"
    \* ---- rmsd_py ----
    coords1,       \* first point set
    coords2,       \* second point set
    magnitude,     \* 0: coordinates of the order of 1, 1: of the order of 10^4
    rmsd,          \* outcome of rmsd_py
    \* ---- OptionSetter ----
    kw_line,       \* embedder.kw_line, split into its words
    options,       \* embedder.options
    setter_status  \* "pending" | "constructed" | "ok" | "SyntaxError" |
                   \* "SystemExit" | "AttributeError"

clashVars == <<coords, ids, thresh, max_clashes, verdict>>
pruneVars == <<structures, k, max_rmsd, sequence, shard_mask, mask, subset,
               status, prev_mask, prev_status, calls, reordered>>
codeVars == <<atomcoords, energies, stamp_size, box_shape, box, box_div,
              code_status, attrs, ensemble_origin, cube_file, write_status>>
rmsdVars == <<coords1, coords2, magnitude, rmsd>>
optionVars == <<kw_line, options, setter_status>>
vars == <<clashVars, pruneVars, codeVars, rmsdVars, optionVars>>

(***************************************************************************)
(* Bounds                                                                  *)
(***************************************************************************)
MaxAtoms == 3      \* atoms in the flat coordinate array
MaxThresh == 3     \* largest threshold, in half units
MaxMaxClashes == 2 \* largest max_clashes
MaxLen == 4        \* longest ensemble
MaxLenTwice == 3   \* longest ensemble pruned twice
MaxLong == 9       \* conformers of the long single shard
MaxAtomsPer == 2   \* atoms of a conformer of the density ensemble
MaxPts == 3        \* points of a point set handed to rmsd_py
MaxNoise == 2      \* largest rounding error of s, in halves of atol
MaxWords == 3      \* keywords of a keyword line

(***************************************************************************)
(* Generic helpers                                                         *)
(***************************************************************************)
Abs(x) == IF x < 0 THEN -x ELSE x

Range(s) == {s[i] : i \in 1..Len(s)}

SeqsUpTo(S, n) == UNION {[1..m -> S] : m \in 0..n}

RECURSIVE SumSeq(_)
SumSeq(s) == IF Len(s) = 0 THEN 0 ELSE s[1] + SumSeq(Tail(s))

RECURSIVE ConcatAll(_)
ConcatAll(ss) == IF Len(ss) = 0 THEN <<>> ELSE ss[1] \o ConcatAll(Tail(ss))

\* a[mask] for a boolean mask of the same length: the selected elements in order
RECURSIVE BoolSelect(_, _)
BoolSelect(a, m) ==
    IF Len(a) = 0 THEN <<>>
    ELSE (IF m[1] THEN <<a[1]>> ELSE <<>>) \o BoolSelect(Tail(a), Tail(m))

(***************************************************************************)
(* compenetration_check (src/_fallback.py)                                 *)
(***************************************************************************)
\* atom positions tried: lattice points with squared distances 0, 1, 2, 3
Points == {p \in [1..3 -> 0..1] : p[1] >= p[2] /\ p[2] >= p[3]}

VecSub(v1, v2) == [c \in 1..3 |-> v1[c] - v2[c]]

\* norm_of returns sqrt(s); the model carries s, the squared norm
norm_of(v) == v[1]*v[1] + v[2]*v[2] + v[3]*v[3]

\* variant: a pair at distance exactly thresh counts as a clash
DistBelowLe(s, t) == t >= 0 /\ 4 * s <= t * t

\* dist < thresh with dist = sqrt(s) and thresh = t/2:  sqrt(s) < t/2
DistBelow(s, t) == t > 0 /\ 4 * s < t * t

\* one pair of nested loops "for v1 in m1: for v2 in m2:", entered with the
\* running counter `clashes`, the pairs taken in loop order from pair idx on
RECURSIVE ScanPairs(_, _, _, _, _, _)
ScanPairs(m1, m2, t, maxc, clashes, idx) ==
    IF idx >= Len(m1) * Len(m2) THEN [clashes |-> clashes, exit |-> FALSE]
    ELSE LET v1 == m1[(idx \div Len(m2)) + 1]
             v2 == m2[(idx % Len(m2)) + 1]
             c  == IF DistBelow(norm_of(VecSub(v1, v2)), t)
                   THEN clashes + 1 ELSE clashes
         IN  IF c > maxc THEN [clashes |-> c, exit |-> TRUE]
             ELSE ScanPairs(m1, m2, t, maxc, c, idx + 1)

\* Python slice a[lo:hi] with 0 <= lo, clamped to the array
Slice(a, lo, hi) ==
    SubSeq(a, lo + 1, IF hi > Len(a) THEN Len(a) ELSE hi)

TwoFragments(cs, is, t, maxc) ==
    LET m1 == Slice(cs, 0, is[1])
        m2 == Slice(cs, is[1], Len(cs))
    IN  IF ScanPairs(m1, m2, t, maxc, 0, 0).exit THEN "False" ELSE "True"

\* variant: every pairing counts its clashes from zero
ThreeFragmentsSeparate(cs, is, t, maxc) ==
    LET m1 == Slice(cs, 0, is[1])
        m2 == Slice(cs, is[1], is[1] + is[2])
        m3 == Slice(cs, is[1] + is[2], Len(cs))
    IN  IF ScanPairs(m1, m2, t, maxc, 0, 0).exit THEN "False"
        ELSE IF ScanPairs(m2, m3, t, maxc, 0, 0).exit THEN "False"
        ELSE IF ScanPairs(m3, m1, t, maxc, 0, 0).exit THEN "False"
        ELSE "True"

ThreeFragments(cs, is, t, maxc) ==
    LET m1 == Slice(cs, 0, is[1])
        m2 == Slice(cs, is[1], is[1] + is[2])
        m3 == Slice(cs, is[1] + is[2], Len(cs))
        p1 == ScanPairs(m1, m2, t, maxc, 0, 0)
        p2 == ScanPairs(m2, m3, t, maxc, p1.clashes, 0)
        p3 == ScanPairs(m3, m1, t, maxc, p2.clashes, 0)
    IN  IF p1.exit THEN "False"
        ELSE IF p2.exit THEN "False"
        ELSE IF p3.exit THEN "False"
        ELSE "True"

compenetration_check(cs, is, t, maxc) ==
    IF Len(is) = 2 THEN TwoFragments(cs, is, t, maxc)
    ELSE IF Len(is) < 2 THEN "IndexError"      \* ids[0] or ids[1] does not exist
    ELSE ThreeFragments(cs, is, t, maxc)

\* fragment boundary sequences of 1 to 4 atom counts that partition n atoms
IdsFor(n) == {s \in SeqsUpTo(0..n, 4) : Len(s) >= 1 /\ SumSeq(s) = n}

PruneIdle ==
    /\ structures = <<>>
    /\ k = 1
    /\ max_rmsd = 1
    /\ sequence = <<>>
    /\ shard_mask = <<>>
    /\ mask = <<>>
    /\ subset = <<>>
    /\ status = "pending"
    /\ prev_mask = <<>>
    /\ prev_status = "pending"
    /\ calls = 0
    /\ reordered = <<>>

CoDeIdle ==
    /\ atomcoords = <<>>
    /\ energies = <<>>
    /\ stamp_size = 0
    /\ box_shape = <<0, 0, 0>>
    /\ box = <<>>
    /\ box_div = 1
    /\ code_status = "pending"
    /\ attrs = {}
    /\ ensemble_origin = <<0, 0, 0>>
    /\ cube_file = [exists |-> FALSE, header |-> <<>>, field |-> <<>>]
    /\ write_status = "pending"

RmsdIdle ==
    /\ coords1 = <<>>
    /\ coords2 = <<>>
    /\ magnitude = 0
    /\ rmsd = [kind |-> "pending", s |-> 0, noise |-> 0, N |-> 0]

\* None, where a number is expected
PyNone == 0 - 1

\* class Options: the defaults of the attributes the modelled keywords touch;
\* rmsd and clash_thresh count tenths
Options ==
    [rotation_steps |-> PyNone, rmsd |-> PyNone, rigid |-> FALSE,
     max_clashes |-> 0, clash_thresh |-> 15, optimization |-> TRUE,
     saddle |-> FALSE, bypass |-> FALSE, csearch_aug |-> FALSE]

OptionsIdle ==
    /\ kw_line = <<>>
    /\ options = Options
    /\ setter_status = "pending"

InitClash ==
    /\ coords \in SeqsUpTo(Points, MaxAtoms)
    /\ ids \in IdsFor(Len(coords))
    /\ thresh \in 0..MaxThresh
    /\ max_clashes \in 0..MaxMaxClashes
    /\ verdict = "pending"
    /\ PruneIdle
    /\ CoDeIdle
    /\ RmsdIdle
    /\ OptionsIdle

CheckClash ==
    /\ verdict = "pending"
    /\ verdict' = compenetration_check(coords, ids, thresh, max_clashes)
    /\ UNCHANGED <<coords, ids, thresh, max_clashes>>
    /\ UNCHANGED pruneVars
    /\ UNCHANGED codeVars
    /\ UNCHANGED rmsdVars
    /\ UNCHANGED optionVars

NextClash == CheckClash

SpecClash == InitClash /\ [][NextClash]_vars

(***************************************************************************)
(* prune_conformers (src/_fallback.py)                                     *)
(*                                                                         *)
(* A conformer is a diatomic molecule with its two atoms at (-b, 0, 0) and *)
(* (b, 0, 0); it is represented by its half bond length b.  After the      *)
(* translation to the centroid and the optimal rotation, the Kabsch RMSD   *)
(* of two such conformers is the absolute difference of their b.           *)
(***************************************************************************)
Conformers == 0..2

kabsch_rmsd(c1, c2) == Abs(c1 - c2)

Perms(n) == {s \in [1..n -> 1..n] : \A i, j \in 1..n : s[i] = s[j] => i = j}

\* dtype of np.array(list): an empty list gives a float64 array
np_array_dtype(list, elem) == IF Len(list) = 0 THEN "float64" ELSE elem

scramble(array, seq) == [p \in 1..Len(seq) |-> array[seq[p]]]

scramble_mask(array, seq) == [p \in 1..Len(seq) |-> array[seq[p]]]

\* variant: the shuffle itself is used where its inverse is needed
inverse_not_taken(seq) == seq

\* np.where(sequence == i)[0][0]: the first position of the permutation holding i
inverse_of(seq) ==
    [i \in 1..Len(seq) |->
        CHOOSE p \in 1..Len(seq) :
            seq[p] = i /\ \A q \in 1..Len(seq) : seq[q] = i => p <= q]

\* variant: the last shard has d conformers too and the remainder is dropped
ShardBoundsEqual(L, kk, step) ==
    LET d == L \div kk
    IN  [lo |-> d * step, hi |-> d * (step + 1)]

\* structures_subset of loop pass `step` (0-based), d = len(structures) // k
ShardBounds(L, kk, step) ==
    LET d == L \div kk
    IN  IF step = kk - 1 THEN [lo |-> d * step, hi |-> L]
        ELSE [lo |-> d * step, hi |-> d * (step + 1)]

structures_subset(strs, kk, step) ==
    LET b == ShardBounds(Len(strs), kk, step)
    IN  Slice(strs, b.lo, b.hi)

\* the inner loop of row i stops at the first j > i with val < max_rmsd
LastCompared(sub, i, mr) ==
    LET hits == {j \in (i + 1)..Len(sub) : kabsch_rmsd(sub[i], sub[j]) < mr}
    IN  IF hits = {} THEN Len(sub)
        ELSE CHOOSE j \in hits : \A h \in hits : j <= h

\* variant: the matrix is left at zero where no pair was compared
rmsd_mat_unfilled(sub, mr) ==
    [i \in 1..Len(sub), j \in 1..Len(sub) |->
        IF i < j /\ j <= LastCompared(sub, i, mr)
        THEN kabsch_rmsd(sub[i], sub[j]) ELSE 0]

\* rmsd_mat after the double loop: filled with max_rmsd, then the compared
\* entries of the upper triangle overwritten
rmsd_mat(sub, mr) ==
    [i \in 1..Len(sub), j \in 1..Len(sub) |->
        IF i < j /\ j <= LastCompared(sub, i, mr)
        THEN kabsch_rmsd(sub[i], sub[j]) ELSE mr]

\* variant: entries equal to max_rmsd match too
matches_le(sub, mr) ==
    LET m == rmsd_mat(sub, mr)
    IN  {pr \in (1..Len(sub)) \X (1..Len(sub)) : m[pr[1], pr[2]] <= mr}

\* np.where(rmsd_mat < max_rmsd), zipped into index pairs
matches(sub, mr) ==
    LET m == rmsd_mat(sub, mr)
    IN  {pr \in (1..Len(sub)) \X (1..Len(sub)) : m[pr[1], pr[2]] < mr}

GraphNodes(es) == {e[1] : e \in es} \cup {e[2] : e \in es}

\* nodes reachable from the set `seen` along edges of es
RECURSIVE Reach(_, _)
Reach(seen, es) ==
    LET more == seen \cup {e[2] : e \in {f \in es : f[1] \in seen}}
                     \cup {e[1] : e \in {f \in es : f[2] \in seen}}
    IN  IF more = seen THEN seen ELSE Reach(more, es)

\* nx.connected_components(g)
groups(es) == {Reach({n}, es) : n \in GraphNodes(es)}

\* the slot of Python index n - 1 in the hash table of a set of at most four
\* ints (8 slots, an int hashes to itself)
hash_slot(n) == (n - 1) % 8

\* the first element that iterating the set of the members of a component
\* yields: the one in the lowest slot.  Two members of one slot (Python
\* indices 0 and 8, 1 and 9) are entered smallest first, the search starting
\* at the smallest node of the component, and the later one moves to a higher
\* slot.  Exact for Python indices up to 9.
set_first(group) ==
    CHOOSE b \in group :
        \A n \in group :
            \/ hash_slot(b) < hash_slot(n)
            \/ (hash_slot(b) = hash_slot(n) /\ b <= n)

\* the first member of a component in the insertion order of the graph: edges
\* are inserted in row-major order with i < j, so it is the smallest index
insertion_first(group) == CHOOSE b \in group : \A n \in group : b <= n

\* tuple(graph.nodes) of the subgraph view of a component iterates the set of
\* its members when that set has less than half the nodes of the graph, and
\* the nodes of the graph in insertion order otherwise
set_order(group, nodes) == 2 * Cardinality(group) < Cardinality(nodes)

\* group[0] of tuple(graph.nodes)
best_of_cluster(group, nodes) ==
    IF set_order(group, nodes) THEN set_first(group)
    ELSE insertion_first(group)

\* variant: the representative is rejected with the rest of its group
rejects_whole_group(es) == UNION groups(es)

rejects(es) ==
    UNION {g \ {best_of_cluster(g, GraphNodes(es))} : g \in groups(es)}

\* variant: no member of any group is rejected
shard_keep_all(sub, mr) == [i \in 1..Len(sub) |-> TRUE]

\* the keep-mask of one shard
shard_keep(sub, mr) ==
    LET r == rejects(matches(sub, mr))
    IN  [i \in 1..Len(sub) |-> i \notin r]

\* mask_out: the shard masks of passes 0..k-1
mask_out(strs, kk, mr) ==
    [s \in 1..kk |-> shard_keep(structures_subset(strs, kk, s - 1), mr)]

\* variant: the ensemble is shuffled whatever k is
shuffles_always(kk) == TRUE

\* "if k != 1": the ensemble is shuffled before sharding and restored after
shuffles(kk) == kk # 1

\* array[s] for every s of seq is inside the array (else Python raises IndexError)
IndexValid(array, seq) == \A p \in 1..Len(seq) : seq[p] \in 1..Len(array)

\* structures[mask]: indexing with a float64 array raises IndexError
prune_conformers(strs, kk, mr, seq) ==
    LET shuffled == IF shuffles(kk) THEN scramble(strs, seq) ELSE strs
        inv      == inverse_of(seq)
        cat      == ConcatAll(mask_out(shuffled, kk, mr))
        valid    == shuffles(kk) => IndexValid(cat, inv)
        m        == IF shuffles(kk) THEN scramble_mask(cat, inv) ELSE cat
        dtype    == IF shuffles(kk) THEN np_array_dtype(m, "bool") ELSE "bool"
        out      == IF shuffles(kk) THEN scramble(shuffled, inv) ELSE shuffled
    IN  IF valid /\ dtype = "bool" /\ Len(m) = Len(out)
        THEN [status |-> "ok", shard_mask |-> cat, mask |-> m,
              subset |-> BoolSelect(out, m)]
        ELSE [status |-> "IndexError", shard_mask |-> cat, mask |-> <<>>,
              subset |-> <<>>]

ClashIdle ==
    /\ coords = <<>>
    /\ ids = <<0, 0>>
    /\ thresh = 3
    /\ max_clashes = 2
    /\ verdict = "pending"

InitPrune ==
    /\ structures \in SeqsUpTo(Conformers, MaxLen)
    /\ k \in 1..3
    /\ max_rmsd \in (-1)..2
    /\ sequence = <<>>
    /\ shard_mask = <<>>
    /\ mask = <<>>
    /\ subset = <<>>
    /\ status = "pending"
    /\ prev_mask = <<>>
    /\ prev_status = "pending"
    /\ calls = 0
    /\ reordered = <<>>
    /\ ClashIdle
    /\ CoDeIdle
    /\ RmsdIdle
    /\ OptionsIdle

\* the effect of one call of prune_conformers on the stored input
Call ==
    /\ \E seq \in (IF shuffles(k) THEN Perms(Len(structures)) ELSE {<<>>}) :
         LET r == prune_conformers(structures, k, max_rmsd, seq)
         IN  /\ sequence' = seq
             /\ shard_mask' = r.shard_mask
             /\ mask' = r.mask
             /\ subset' = r.subset
             /\ status' = r.status
    /\ prev_mask' = mask
    /\ prev_status' = status
    /\ calls' = calls + 1
    /\ UNCHANGED <<structures, k, max_rmsd, reordered>>
    /\ UNCHANGED clashVars
    /\ UNCHANGED codeVars
    /\ UNCHANGED rmsdVars
    /\ UNCHANGED optionVars

\* the first call of prune_conformers on the input
Prune ==
    /\ calls = 0
    /\ Call

\* the second call with the same arguments; the first result is remembered
PruneAgain ==
    /\ calls = 1
    /\ Call

NextPrune == Prune

SpecPrune == InitPrune /\ [][NextPrune]_vars

\* two calls on one input: ensembles of at most MaxLenTwice conformers, one or
\* two shards, a positive threshold
InitPruneTwice ==
    /\ InitPrune
    /\ Len(structures) <= MaxLenTwice
    /\ k \in 1..2
    /\ max_rmsd \in 1..2

NextPruneTwice == Prune \/ PruneAgain

SpecPruneTwice == InitPruneTwice /\ [][NextPruneTwice]_vars

\* the second call, on the same conformers in another order (k = 1)
PruneReordered ==
    /\ calls = 1
    /\ \E perm \in Perms(Len(structures)) :
         LET other == scramble(structures, perm)
             r     == prune_conformers(other, k, max_rmsd, <<>>)
         IN  /\ reordered' = other
             /\ shard_mask' = r.shard_mask
             /\ mask' = r.mask
             /\ subset' = r.subset
             /\ status' = r.status
    /\ prev_mask' = mask
    /\ prev_status' = status
    /\ calls' = calls + 1
    /\ UNCHANGED <<structures, k, max_rmsd, sequence>>
    /\ UNCHANGED clashVars
    /\ UNCHANGED codeVars
    /\ UNCHANGED rmsdVars
    /\ UNCHANGED optionVars

\* one ensemble pruned in two orders, unsharded
InitPruneReorder ==
    /\ InitPrune
    /\ Len(structures) <= MaxLenTwice
    /\ k = 1
    /\ max_rmsd \in 1..2

NextPruneReorder == Prune \/ PruneReordered

SpecPruneReorder == InitPruneReorder /\ [][NextPruneReorder]_vars

\* one shard of exactly MaxLong conformers of two kinds
InitPruneLong ==
    /\ structures \in [1..MaxLong -> 0..1]
    /\ k = 1
    /\ max_rmsd \in 1..2
    /\ sequence = <<>>
    /\ shard_mask = <<>>
    /\ mask = <<>>
    /\ subset = <<>>
    /\ status = "pending"
    /\ prev_mask = <<>>
    /\ prev_status = "pending"
    /\ calls = 0
    /\ reordered = <<>>
    /\ ClashIdle
    /\ CoDeIdle
    /\ RmsdIdle
    /\ OptionsIdle

NextPruneLong == Prune

SpecPruneLong == InitPruneLong /\ [][NextPruneLong]_vars

(***************************************************************************)
(* Claims about compenetration_check                                       *)
(***************************************************************************)
Called == verdict # "pending"

\* number of atom pairs (a, b), a in block A and b in block B (index sets of
\* coords), whose squared distance s satisfies sqrt(s) < thresh/2
ClashPairs(A, B) ==
    {pr \in A \X B :
        thresh > 0 /\
        4 * norm_of(VecSub(coords[pr[1]], coords[pr[2]])) < thresh * thresh}

Frag1 == 1..ids[1]
Frag2of2 == (ids[1] + 1)..Len(coords)
Frag2of3 == (ids[1] + 1)..(ids[1] + ids[2])
Frag3of3 == (ids[1] + ids[2] + 1)..Len(coords)

\* C1: with a 2-entry fragment boundary and max_clashes >= 0 the verdict is
\* True exactly when the number of inter-fragment atom pairs at distance
\* strictly below thresh is at most max_clashes; a pair at distance exactly
\* thresh and pairs inside one fragment are not counted.
C1_TwoFragmentVerdict ==
    (Called /\ Len(ids) = 2 /\ max_clashes >= 0) =>
        /\ verdict \in {"True", "False"}
        /\ (verdict = "True") <=>
               (Cardinality(ClashPairs(Frag1, Frag2of2)) <= max_clashes)

\* C1 witness: a 2-fragment call accepted with exactly max_clashes >= 1
\* clashes while some inter-fragment pair sits at distance exactly thresh
C1_Witness ==
    /\ Called /\ Len(ids) = 2 /\ verdict = "True"
    /\ max_clashes >= 1
    /\ Cardinality(ClashPairs(Frag1, Frag2of2)) = max_clashes
    /\ \E pr \in Frag1 \X Frag2of2 :
           4 * norm_of(VecSub(coords[pr[1]], coords[pr[2]])) = thresh * thresh

\* C2: with a 3-entry fragment boundary and max_clashes >= 0 the verdict is
\* True exactly when the below-threshold pairs of the pairings 1-2, 2-3 and
\* 3-1, counted together, number at most max_clashes.
C2_ThreeFragmentVerdict ==
    (Called /\ Len(ids) = 3 /\ max_clashes >= 0) =>
        /\ verdict \in {"True", "False"}
        /\ (verdict = "True") <=>
               (Cardinality(ClashPairs(Frag1, Frag2of3))
                + Cardinality(ClashPairs(Frag2of3, Frag3of3))
                + Cardinality(ClashPairs(Frag3of3, Frag1)) <= max_clashes)

\* C2 witness: a 3-fragment call rejected although no single pairing has
\* more than max_clashes clashes (only the shared counter exceeds it)
C2_Witness ==
    /\ Called /\ Len(ids) = 3 /\ verdict = "False"
    /\ Cardinality(ClashPairs(Frag1, Frag2of3)) <= max_clashes
    /\ Cardinality(ClashPairs(Frag2of3, Frag3of3)) <= max_clashes
    /\ Cardinality(ClashPairs(Frag3of3, Frag1)) <= max_clashes
    /\ Cardinality(ClashPairs(Frag3of3, Frag1)) >= 1

\* C3: a call whose fragment boundary sequence has neither 2 nor 3 entries
\* reports an error and never returns an acceptable/unacceptable verdict.
C3_InvalidIdsRejected ==
    (Called /\ Len(ids) \notin {2, 3}) => verdict \notin {"True", "False"}

(***************************************************************************)
(* Claims about prune_conformers                                           *)
(***************************************************************************)
Returned == calls >= 1

KeptCount == Cardinality({i \in 1..Len(mask) : mask[i]})

\* the loop pass (0-based) whose shard holds position p of the sharded array
ShardOf(p) ==
    CHOOSE step \in 0..(k - 1) :
        LET b == ShardBounds(Len(structures), k, step)
        IN  b.lo < p /\ p <= b.hi

\* the sharded array: the ensemble as it stood when it was cut into shards
Sharded == IF k # 1 THEN [p \in 1..Len(sequence) |-> structures[sequence[p]]]
           ELSE structures

\* C4: for an ensemble of L >= 1 conformers and every shard count k in 1..L
\* the call succeeds and the keep-mask has exactly L entries.
C4_MaskLength ==
    (Returned /\ Len(structures) >= 1 /\ k \in 1..Len(structures)) =>
        /\ status = "ok"
        /\ Len(mask) = Len(structures)

\* C4 witness: a call whose shards are of unequal size (L is no multiple of k)
C4_Witness ==
    /\ Returned /\ status = "ok"
    /\ k \in 2..Len(structures)
    /\ Len(structures) % k # 0

\* C5: for k > 1 inv_sequence is the exact inverse of the shuffle, mask[i] is
\* the verdict of the shuffled position that held original conformer i, and
\* the subset is the original conformers with a True entry, in original order.
C5_OriginalOrder ==
    (Returned /\ status = "ok" /\ k > 1) =>
        /\ \A i \in 1..Len(structures) :
              /\ sequence[inverse_of(sequence)[i]] = i
              /\ inverse_of(sequence)[sequence[i]] = i
        /\ Len(mask) = Len(structures)
        /\ \A p \in 1..Len(sequence) : mask[sequence[p]] = shard_mask[p]
        /\ subset = BoolSelect(structures, mask)

\* C5 witness: a shuffle that is not its own inverse, on distinct conformers,
\* with both kept and rejected conformers
C5_Witness ==
    /\ Returned /\ status = "ok" /\ k > 1
    /\ \E i \in 1..Len(sequence) : sequence[sequence[i]] # i
    /\ \E i, j \in 1..Len(mask) : mask[i] /\ ~mask[j]
    /\ mask # shard_mask
    /\ \E i, j \in 1..Len(structures) : structures[i] # structures[j]

AllPairsBelow ==
    \A i, j \in 1..Len(structures) :
        kabsch_rmsd(structures[i], structures[j]) < max_rmsd

\* C6: with k = 1 and a positive threshold, an ensemble of n >= 1 conformers
\* whose pairwise RMSD values are all below the threshold keeps exactly one.
C6_AllSimilarKeepsOne ==
    (Returned /\ k = 1 /\ max_rmsd > 0 /\ Len(structures) >= 1
        /\ AllPairsBelow) =>
        /\ status = "ok"
        /\ KeptCount = 1
        /\ Len(subset) = 1

\* C6 witness: three or more pairwise similar conformers, not all identical
C6_Witness ==
    /\ Returned /\ k = 1 /\ max_rmsd > 0 /\ Len(structures) >= 3
    /\ AllPairsBelow
    /\ \E i, j \in 1..Len(structures) : structures[i] # structures[j]
    /\ KeptCount = 1

C8_ExactDuplicatesMerge ==
    (Returned /\ status = "ok" /\ max_rmsd <= 0) =>
        /\ \A p, q \in 1..Len(shard_mask) :
              (p < q /\ ShardOf(p) = ShardOf(q)
                 /\ kabsch_rmsd(Sharded[p], Sharded[q]) = 0)
              => ~(shard_mask[p] /\ shard_mask[q])
        /\ \A q \in 1..Len(shard_mask) :
              ~shard_mask[q] =>
                 \E p \in 1..Len(shard_mask) :
                    /\ p # q /\ ShardOf(p) = ShardOf(q)
                    /\ kabsch_rmsd(Sharded[p], Sharded[q]) = 0

\* C8 amended: with max_rmsd <= 0 nothing is merged, not even a pair at RMSD
\* exactly 0: every conformer is kept.
C8_NothingMerges ==
    (Returned /\ max_rmsd <= 0 /\ Len(structures) >= 1) =>
        /\ status = "ok"
        /\ Len(mask) = Len(structures)
        /\ \A i \in 1..Len(mask) : mask[i]
        /\ subset = structures

\* C8 witness: max_rmsd <= 0 and two exact duplicates in one shard
C8_Witness ==
    /\ Returned /\ status = "ok" /\ max_rmsd <= 0
    /\ \E p, q \in 1..Len(shard_mask) :
          /\ p < q /\ ShardOf(p) = ShardOf(q)
          /\ kabsch_rmsd(Sharded[p], Sharded[q]) = 0

\* C9: on an empty ensemble the call returns an empty subset and an empty
\* mask without raising, for every shard count k >= 1.
C9_EmptyEnsemble ==
    (Returned /\ Len(structures) = 0) =>
        /\ status = "ok"
        /\ mask = <<>>
        /\ subset = <<>>

(***************************************************************************)
(* Density_object.compute_CoDe (src/rdkit_Class.py)                        *)
(*                                                                         *)
(* Lengths are integers counting half voxels (voxel_dim is 2 of them), so  *)
(* that round() meets its ties.  Energies count units of 5 kcal/mol.  The  *)
(* two exponentials are powers of two: hardness and T are fixed so that    *)
(* hardness*voxel_dim/stamp_size = ln 2 and 5*503.2475342795285/T = ln 2,  *)
(* and the cell values are integer multiples of one power of two that is   *)
(* constant during a call.                                                 *)
(***************************************************************************)
EnergyCutoff == 2      \* 10 kcal/mol

\* atom positions tried, in half voxels: on and off the voxel lattice
CoDePoints == {<<0, 0, 0>>, <<1, 0, 0>>, <<2, 1, 0>>}

RECURSIVE Pow2(_)
Pow2(n) == IF n <= 0 THEN 1 ELSE 2 * Pow2(n - 1)

SetMin(S) == CHOOSE m \in S : \A x \in S : m <= x
SetMax(S) == CHOOSE m \in S : \A x \in S : x <= m

\* Python round(h/2) for an integer h: ties go to the even neighbour
py_round(h) ==
    LET f == h \div 2
    IN  IF h % 2 = 0 THEN f
        ELSE IF f % 2 = 0 THEN f ELSE f + 1

\* int(np.ceil(h/2)) for h >= 0
np_ceil(h) == (h + 1) \div 2

\* stamp_len = round(stamp_size/voxel_dim)
stamp_len_of(ss) == py_round(ss)

\* 4*r_2 of stamp cell (x, y, z), r_2 = (x - L/2)^2 + (y - L/2)^2 + (z - L/2)^2
r_2_quarters(L, x, y, z) ==
    (2*x - L)*(2*x - L) + (2*y - L)*(2*y - L) + (2*z - L)*(2*z - L)

\* self.stamp[x, y, z] = exp(-ln2 * r_2), in units of 2^-(3*L*L/4)
stamp_of(L) ==
    [c \in (0..(L - 1)) \X (0..(L - 1)) \X (0..(L - 1)) |->
        Pow2(((3 * L * L) \div 4) - (r_2_quarters(L, c[1], c[2], c[3]) \div 4))]

\* self.atoms: every atom of every conformer
atoms_of(ac) == UNION {Range(ac[i]) : i \in 1..Len(ac)}

min_of(ac, axis) == SetMin({a[axis] : a \in atoms_of(ac)})
max_of(ac, axis) == SetMax({a[axis] : a \in atoms_of(ac)})

\* variant: the padding is one stamp length instead of two
shape_of_thin(ac, L) ==
    [axis \in 1..3 |-> np_ceil(max_of(ac, axis) - min_of(ac, axis)) + L]

\* shape = ceil(size/voxel_dim) + outline on each axis, outline = 2*stamp_len
shape_of(ac, L) ==
    [axis \in 1..3 |-> np_ceil(max_of(ac, axis) - min_of(ac, axis)) + 2 * L]

\* x_pos = round((atom[0] - min_x)/voxel_dim + outline/2), and so on
voxel_pos(ac, L, atom) ==
    [axis \in 1..3 |-> py_round((atom[axis] - min_of(ac, axis)) + 2 * L)]

\* variant: a conformer at exactly the cutoff energy is stamped too
contributes_le(e) == e <= EnergyCutoff

\* "if self.energies[i] < 10"
contributes(e) == e < EnergyCutoff

\* weight = exp(-E*503.2475342795285/T) = 2^-e, in units of 2^-EnergyCutoff
weight_of(e) == Pow2(EnergyCutoff - e)

\* the stampings of the double loop, in loop order: voxel position and weight
RECURSIVE stampings(_, _, _, _, _)
stampings(ac, en, L, i, a) ==
    IF i > Len(ac) THEN <<>>
    ELSE IF ~contributes(en[i]) \/ a > Len(ac[i])
         THEN stampings(ac, en, L, i + 1, 1)
    ELSE <<[pos |-> voxel_pos(ac, L, ac[i][a]), weight |-> weight_of(en[i])]>>
         \o stampings(ac, en, L, i, a + 1)

\* the slice box[x_pos : x_pos + stamp_len, ...] lies inside the grid
InGrid(shape, L, pos) ==
    \A axis \in 1..3 : 0 <= pos[axis] /\ pos[axis] + L <= shape[axis]

\* what the += of stampings n, n+1, ... adds to cell c
RECURSIVE accumulated(_, _, _, _, _)
accumulated(c, st, L, sts, n) ==
    IF n > Len(sts) THEN 0
    ELSE LET s == sts[n]
             inside == \A axis \in 1..3 :
                          s.pos[axis] <= c[axis] /\ c[axis] < s.pos[axis] + L
             rel == <<c[1] - s.pos[1], c[2] - s.pos[2], c[3] - s.pos[3]>>
         IN  (IF inside THEN st[rel] * s.weight ELSE 0)
             + accumulated(c, st, L, sts, n + 1)

Cells(shape) ==
    (0..(shape[1] - 1)) \X (0..(shape[2] - 1)) \X (0..(shape[3] - 1))

\* variant: the grid is divided by its maximum but not scaled to 100
normalize_to_one(raw, m) == [c \in DOMAIN raw |-> raw[c]]

\* 100 * self.box / max(self.box...): numerators 100*cell over the maximum m
normalize(raw, m) == [c \in DOMAIN raw |-> 100 * raw[c]]

\* self.ensemble_origin = -(shape + outline)/2 * voxel_dim on each axis
ensemble_origin_of(shape, L) == [axis \in 1..3 |-> 0 - (shape[axis] + 2 * L)]

\* self.stamp, self.ensemble_origin and self.box are assigned before the
\* stamping loop, self.voxdim after the normalization
compute_CoDe(ac, en, ss) ==
    LET L     == stamp_len_of(ss)
        shape == shape_of(ac, L)
        early == {"stamp", "ensemble_origin", "box"}
        org   == ensemble_origin_of(shape, L)
        sts   == stampings(ac, en, L, 1, 1)
        st    == stamp_of(L)
        raw   == [c \in Cells(shape) |-> accumulated(c, st, L, sts, 1)]
        m     == SetMax({raw[c] : c \in Cells(shape)})
    IN  IF \E i \in 1..Len(sts) : L > 0 /\ ~InGrid(shape, L, sts[i].pos)
        THEN [status |-> "ValueError", shape |-> shape, box |-> <<>>, div |-> 1,
              attrs |-> early, origin |-> org]
        ELSE IF Cells(shape) = {}          \* max() of an empty sequence
        THEN [status |-> "ValueError", shape |-> shape, box |-> <<>>, div |-> 1,
              attrs |-> early, origin |-> org]
        ELSE IF m = 0                      \* 0/0 in every cell
        THEN [status |-> "nan", shape |-> shape, box |-> raw, div |-> 0,
              attrs |-> early \cup {"voxdim"}, origin |-> org]
        ELSE [status |-> "ok", shape |-> shape, box |-> normalize(raw, m),
              div |-> m, attrs |-> early \cup {"voxdim"}, origin |-> org]

Ensembles ==
    UNION {[1..n -> [1..a -> CoDePoints]] : n \in 1..2, a \in 1..MaxAtomsPer}

InitCoDe ==
    /\ atomcoords \in Ensembles
    /\ energies \in [1..Len(atomcoords) -> 0..2]
    /\ stamp_size \in 0..3
    /\ box_shape = <<0, 0, 0>>
    /\ box = <<>>
    /\ box_div = 1
    /\ code_status = "pending"
    /\ attrs = {}
    /\ ensemble_origin = <<0, 0, 0>>
    /\ cube_file = [exists |-> FALSE, header |-> <<>>, field |-> <<>>]
    /\ write_status = "pending"
    /\ ClashIdle
    /\ PruneIdle
    /\ RmsdIdle
    /\ OptionsIdle

ComputeCoDe ==
    /\ code_status = "pending"
    /\ LET r == compute_CoDe(atomcoords, energies, stamp_size)
       IN  /\ code_status' = r.status
           /\ box_shape' = r.shape
           /\ box' = r.box
           /\ box_div' = r.div
           /\ attrs' = r.attrs
           /\ ensemble_origin' = r.origin
    /\ UNCHANGED <<atomcoords, energies, stamp_size, cube_file, write_status>>
    /\ UNCHANGED clashVars
    /\ UNCHANGED pruneVars
    /\ UNCHANGED rmsdVars
    /\ UNCHANGED optionVars

NextCoDe == ComputeCoDe

SpecCoDe == InitCoDe /\ [][NextCoDe]_vars

(***************************************************************************)
(* Density_object.write_cubefile (src/rdkit_Class.py)                      *)
(*                                                                         *)
(* The file is a record: whether it exists, its header lines (one tag per  *)
(* line written) and the lines of the scalar-field block, each the         *)
(* sequence of the grid cells whose values it holds.                       *)
(***************************************************************************)
NoFile == [exists |-> FALSE, header |-> <<>>, field |-> <<>>]

\* a file of that name left by an earlier run
OldFile == [exists |-> TRUE, header |-> <<"old">>, field |-> <<>>]

\* variant: reading an attribute never fails
defined_always(names, name) == TRUE

\* self.<name> can be read (else AttributeError)
defined(names, name) == name \in names

\* variant: the first axis varies fastest
cell_order_x_fastest(shape) ==
    [n \in 1..(shape[1] * shape[2] * shape[3]) |->
        <<(n - 1) % shape[1],
          ((n - 1) \div shape[1]) % shape[2],
          (n - 1) \div (shape[1] * shape[2])>>]

\* the cells in the order of the x, y, z loops (x outer, z inner); n counts
\* from 1
cell_order(shape) ==
    [n \in 1..(shape[1] * shape[2] * shape[3]) |->
        <<(n - 1) \div (shape[2] * shape[3]),
          ((n - 1) \div shape[3]) % shape[2],
          (n - 1) % shape[3]>>]

\* "if count % 6 == 5": a newline follows the value that made count so
newline_after(count) == count % 6 = 5

\* print_list split at its newlines: cur is the line being filled after
\* `count` values; the newline appended after the loops ends the last line
RECURSIVE scalar_lines(_, _, _)
scalar_lines(cells, count, cur) ==
    IF count = Len(cells) THEN <<cur>>
    ELSE LET line == Append(cur, cells[count + 1])
         IN  IF newline_after(count + 1)
             THEN <<line>> \o scalar_lines(cells, count + 1, <<>>)
             ELSE scalar_lines(cells, count + 1, line)

\* one line per atom of every conformer
atom_lines(ac) == [n \in 1..SumSeq([i \in 1..Len(ac) |-> Len(ac[i])]) |-> "atom"]

\* open(cubename, 'w') creates or truncates the file; the lines written before
\* an exception stay in it; any exception is re-raised as Exception
write_cubefile(names, ac, shape) ==
    IF ~defined(names, "ensemble_origin")
    THEN [status |-> "Exception",
          file |-> [exists |-> TRUE, header |-> <<"title", "loops">>,
                    field |-> <<>>]]
    ELSE IF ~defined(names, "box") \/ ~defined(names, "voxdim")
    THEN [status |-> "Exception",
          file |-> [exists |-> TRUE, header |-> <<"title", "loops", "origin">>,
                    field |-> <<>>]]
    ELSE [status |-> "ok",
          file |-> [exists |-> TRUE,
                    header |-> <<"title", "loops", "origin", "axis", "axis",
                                 "axis">> \o atom_lines(ac),
                    field |-> scalar_lines(cell_order(shape), 0, <<>>)]]

\* one conformer, with or without a file left by an earlier run
InitCube ==
    /\ atomcoords \in UNION {[1..1 -> [1..a -> CoDePoints]] : a \in 1..MaxAtomsPer}
    /\ energies \in [1..Len(atomcoords) -> 0..2]
    /\ stamp_size \in 0..3
    /\ box_shape = <<0, 0, 0>>
    /\ box = <<>>
    /\ box_div = 1
    /\ code_status = "pending"
    /\ attrs = {}
    /\ ensemble_origin = <<0, 0, 0>>
    /\ cube_file \in {NoFile, OldFile}
    /\ write_status = "pending"
    /\ ClashIdle
    /\ PruneIdle
    /\ RmsdIdle
    /\ OptionsIdle

WriteCubefile ==
    /\ write_status = "pending"
    /\ LET r == write_cubefile(attrs, atomcoords, box_shape)
       IN  /\ write_status' = r.status
           /\ cube_file' = r.file
    /\ UNCHANGED <<atomcoords, energies, stamp_size, box_shape, box, box_div,
                   code_status, attrs, ensemble_origin>>
    /\ UNCHANGED clashVars
    /\ UNCHANGED pruneVars
    /\ UNCHANGED rmsdVars
    /\ UNCHANGED optionVars

NextCube == ComputeCoDe \/ WriteCubefile

SpecCube == InitCube /\ [][NextCube]_vars

(***************************************************************************)
(* rmsd_py (src/_fallback.py)                                              *)
(*                                                                         *)
(* Point sets lie on the x axis at integer positions, in a length unit     *)
(* that `magnitude` selects.  The centered arrays are kept multiplied by   *)
(* the number of points N, and every sum of products (Ga, Gb, M, K, l_max, *)
(* s) by N*N, so that all of them are integers.  For these point sets K    *)
(* is a diagonal matrix and its eigenvalues are its diagonal entries.      *)
(*                                                                         *)
(* The floating-point value of s is the exact value plus a rounding error  *)
(* `noise`, counted in halves of atol.  A non-zero exact s is at least     *)
(* 1/(N*N) squared length units and far above both atol and the error.     *)
(***************************************************************************)
Atol == 2          \* atol = 1e-9, in halves of atol

RmsdPoints == {<<x, 0, 0>> : x \in 0..2}

\* N * (coords - np.mean(coords, axis=0))
centered(c) ==
    [i \in 1..Len(c) |->
        [axis \in 1..3 |->
            Len(c) * c[i][axis] - SumSeq([j \in 1..Len(c) |-> c[j][axis]])]]

\* variant: the matrix product accepts any two arrays
matmul_conforms_any(A, B) == TRUE

\* B.T @ A needs as many rows in B as in A (else ValueError)
matmul_conforms(A, B) == Len(A) = Len(B)

\* B.T @ A, summed over the common rows
M_mtx(A, B) ==
    LET n == IF Len(A) < Len(B) THEN Len(A) ELSE Len(B)
    IN  [r \in 1..3 |-> [c \in 1..3 |->
            SumSeq([i \in 1..n |-> B[i][r] * A[i][c]])]]

np_trace(M) == M[1][1] + M[2][2] + M[3][3]

K_mtx(M) ==
    LET S_xx == M[1][1]
        S_xy == M[1][2]
        S_xz == M[1][3]
        S_yx == M[2][1]
        S_yy == M[2][2]
        S_yz == M[2][3]
        S_zx == M[3][1]
        S_zy == M[3][2]
        S_zz == M[3][3]
    IN  << <<S_xx + S_yy + S_zz, S_yz - S_zy, S_zx - S_xz, S_xy - S_yx>>,
           <<S_yz - S_zy, S_xx - S_yy - S_zz, S_xy + S_yx, S_zx + S_xz>>,
           <<S_zx - S_xz, S_xy + S_yx, S_yy - S_xx - S_zz, S_yz + S_zy>>,
           <<S_xy - S_yx, S_zx + S_xz, S_yz + S_zy, S_zz - S_xx - S_yy>> >>

\* variant: the smallest eigenvalue is taken
lambda_min_eig(K) == SetMin({K[i][i] : i \in 1..4})

\* np.max(np.linalg.eig(K)[0]) of a diagonal K
lambda_max_eig(K) == SetMax({K[i][i] : i \in 1..4})

\* abs(s) < atol, for the exact part s and the rounding error noise
below_atol(s, noise) == s = 0 /\ Abs(noise) < Atol

\* s < 0: the exact part is never negative
negative(s, noise) == s = 0 /\ noise < 0

rmsd_py(c1, c2, noise) ==
    LET A  == centered(c1)
        B  == centered(c2)
        N  == Len(A)
        Ga == np_trace(M_mtx(A, A))
        Gb == np_trace(M_mtx(B, B))
    IN  IF ~matmul_conforms(A, B)
        THEN [kind |-> "ValueError", s |-> 0, noise |-> 0, N |-> N]
        ELSE LET l_max == lambda_max_eig(K_mtx(M_mtx(A, B)))
                 s     == Ga + Gb - 2 * l_max
             IN  IF below_atol(s, noise)
                 THEN [kind |-> "zero", s |-> s, noise |-> noise, N |-> N]
                 ELSE IF negative(s, noise)      \* np.sqrt of a negative
                 THEN [kind |-> "nan", s |-> s, noise |-> noise, N |-> N]
                 ELSE [kind |-> "number", s |-> s, noise |-> noise, N |-> N]

\* the rounding errors of s that double precision can leave: none when the
\* two arrays are identical (all sums are sums of the same products) or when
\* no s is computed, less than atol for coordinates of the order of 1, up to
\* and beyond atol for coordinates of the order of 10^4
rounding(c1, c2, mag) ==
    IF c1 = c2 \/ Len(c1) # Len(c2) THEN {0}
    ELSE IF mag = 0 THEN (-1)..1
    ELSE (0 - MaxNoise)..MaxNoise

InitRmsd ==
    /\ coords1 \in SeqsUpTo(RmsdPoints, MaxPts)
    /\ coords2 \in SeqsUpTo(RmsdPoints, MaxPts)
    /\ magnitude \in 0..1
    /\ rmsd = [kind |-> "pending", s |-> 0, noise |-> 0, N |-> 0]
    /\ ClashIdle
    /\ PruneIdle
    /\ CoDeIdle
    /\ OptionsIdle

RmsdPy ==
    /\ rmsd.kind = "pending"
    /\ \E noise \in rounding(coords1, coords2, magnitude) :
          rmsd' = rmsd_py(coords1, coords2, noise)
    /\ UNCHANGED <<coords1, coords2, magnitude>>
    /\ UNCHANGED clashVars
    /\ UNCHANGED pruneVars
    /\ UNCHANGED codeVars
    /\ UNCHANGED optionVars

NextRmsd == RmsdPy

SpecRmsd == InitRmsd /\ [][NextRmsd]_vars

(***************************************************************************)
(* OptionSetter (src/tscode/embedder_options.py)                           *)
(*                                                                         *)
(* A keyword line is the sequence of its words, already upper case and     *)
(* without arguments.                                                      *)
(***************************************************************************)
\* the entries of keywords_list among the words tried
keywords_list == {"BYPASS", "DEEP", "NOOPT", "RIGID", "SADDLE"}

\* the words tried: keywords, a method name that is no keyword, and a word
\* that is neither
Words == keywords_list \cup {"CSEARCH", "FOO"}

\* getattr(self, kw.lower()) finds a method
has_setter(kw) == kw \in keywords_list \cup {"CSEARCH"}

\* __init__: the SyntaxError for a word outside keywords_list is built but
\* not raised, so the constructor returns for every line
init_status(kws) == "constructed"

\* deep: its first statement assigns to options.options.rmsd, and Options has
\* no attribute `options`
deep(o) ==
    IF "options" \notin DOMAIN o THEN [status |-> "AttributeError", options |-> o]
    ELSE [status |-> "ok",
          options |-> [o EXCEPT !.rmsd = 3, !.rotation_steps = 72,
                                !.max_clashes = 1, !.clash_thresh = 14]]

saddle(o) ==
    IF ~o.optimization THEN [status |-> "SystemExit", options |-> o]
    ELSE [status |-> "ok", options |-> [o EXCEPT !.saddle = TRUE]]

noopt(o) == [status |-> "ok", options |-> [o EXCEPT !.optimization = FALSE]]

bypass(o) ==
    [status |-> "ok",
     options |-> [o EXCEPT !.bypass = TRUE, !.optimization = FALSE]]

rigid(o) == [status |-> "ok", options |-> [o EXCEPT !.rigid = TRUE]]

csearch(o) == [status |-> "ok", options |-> [o EXCEPT !.csearch_aug = TRUE]]

\* setter_function(self.embedder.options, ...)
setter_function(kw, o) ==
    IF ~has_setter(kw) THEN [status |-> "AttributeError", options |-> o]
    ELSE IF kw = "DEEP" THEN deep(o)
    ELSE IF kw = "SADDLE" THEN saddle(o)
    ELSE IF kw = "NOOPT" THEN noopt(o)
    ELSE IF kw = "BYPASS" THEN bypass(o)
    ELSE IF kw = "RIGID" THEN rigid(o)
    ELSE csearch(o)

\* the loop of set_options from keyword i on, in the order of the line; an
\* exception ends it and keeps what earlier keywords have set
RECURSIVE set_options(_, _, _)
set_options(kws, i, o) ==
    IF i > Len(kws) THEN [status |-> "ok", options |-> o]
    ELSE LET r == setter_function(kws[i], o)
         IN  IF r.status # "ok" THEN r
             ELSE set_options(kws, i + 1, r.options)

InitOptions ==
    /\ kw_line \in SeqsUpTo(Words, MaxWords)
    /\ options = Options
    /\ setter_status = "pending"
    /\ ClashIdle
    /\ PruneIdle
    /\ CoDeIdle
    /\ RmsdIdle

\* OptionSetter(embedder)
Construct ==
    /\ setter_status = "pending"
    /\ setter_status' = init_status(kw_line)
    /\ UNCHANGED <<kw_line, options>>
    /\ UNCHANGED clashVars
    /\ UNCHANGED pruneVars
    /\ UNCHANGED codeVars
    /\ UNCHANGED rmsdVars

\* OptionSetter.set_options()
SetOptions ==
    /\ setter_status = "constructed"
    /\ LET r == set_options(kw_line, 1, options)
       IN  /\ setter_status' = r.status
           /\ options' = r.options
    /\ UNCHANGED kw_line
    /\ UNCHANGED clashVars
    /\ UNCHANGED pruneVars
    /\ UNCHANGED codeVars
    /\ UNCHANGED rmsdVars

NextOptions == Construct \/ SetOptions

SpecOptions == InitOptions /\ [][NextOptions]_vars

(***************************************************************************)
(* Claims about compute_CoDe                                               *)
(***************************************************************************)
Computed == code_status # "pending"

\* C10: when at least one conformer has relative energy below 10 and the
\* stamp has at least one voxel, the normalized grid has every cell >= 0 and
\* its maximum cell value equals 100 (cell value = box[c] / box_div).
C10_Normalized ==
    (Computed /\ stamp_len_of(stamp_size) >= 1
        /\ \E i \in 1..Len(energies) : energies[i] < EnergyCutoff) =>
        /\ code_status = "ok"
        /\ box_div > 0
        /\ \A c \in DOMAIN box : box[c] >= 0 /\ box[c] <= 100 * box_div
        /\ \E c \in DOMAIN box : box[c] = 100 * box_div

\* C10 witness: a grid stamped by two conformers of different weight, with
\* cells at 0, at 100 and strictly in between
C10_Witness ==
    /\ Computed /\ code_status = "ok"
    /\ stamp_len_of(stamp_size) >= 2
    /\ \E i, j \in 1..Len(energies) :
          energies[i] < energies[j] /\ energies[j] < EnergyCutoff
    /\ \E c \in DOMAIN box : box[c] = 0
    /\ \E c \in DOMAIN box : box[c] = 100 * box_div
    /\ \E c \in DOMAIN box : 0 < box[c] /\ box[c] < 100 * box_div

\* what atom a of conformer i adds to cell c when it is stamped: the stamp
\* value at the offset of c from the voxel position of the atom, times the
\* weight of the conformer
StampOn(c, i, a) ==
    LET L   == stamp_len_of(stamp_size)
        pos == voxel_pos(atomcoords, L, atomcoords[i][a])
        rel == <<c[1] - pos[1], c[2] - pos[2], c[3] - pos[3]>>
    IN  IF \A axis \in 1..3 : 0 <= rel[axis] /\ rel[axis] < L
        THEN Pow2(((3 * L * L) \div 4)
                  - (r_2_quarters(L, rel[1], rel[2], rel[3]) \div 4))
             * Pow2(EnergyCutoff - energies[i])
        ELSE 0

\* the value of cell c when exactly the conformers of the set S are stamped,
\* each with all its atoms
GridOf(S, c) ==
    SumSeq([i \in 1..Len(atomcoords) |->
              IF i \in S
              THEN SumSeq([a \in 1..Len(atomcoords[i]) |-> StampOn(c, i, a)])
              ELSE 0])

LowEnergy == {i \in 1..Len(energies) : energies[i] < EnergyCutoff}

\* C11: a conformer with relative energy >= 10 adds nothing and a conformer
\* with energy below 10 stamps every one of its atoms: each cell of the
\* accumulated grid is the sum of the stamps of all atoms of exactly the
\* conformers below 10, as if the atoms of the others were skipped.
C11_ExcludedAddNothing ==
    /\ code_status = "ok" =>
          \A c \in DOMAIN box : box[c] = 100 * GridOf(LowEnergy, c)
    /\ code_status = "nan" =>
          \A c \in DOMAIN box : box[c] = 0 /\ GridOf(LowEnergy, c) = 0

\* C11 witness: a grid computed from one conformer below 10 and one at 10
\* whose stamp would have covered a cell that stayed empty
C11_Witness ==
    /\ code_status = "ok"
    /\ \E i, j \in 1..Len(energies) :
          /\ energies[i] < EnergyCutoff
          /\ energies[j] >= EnergyCutoff
          /\ \E c \in DOMAIN box :
                /\ box[c] = 0
                /\ \E a \in 1..Len(atomcoords[j]) : StampOn(c, j, a) > 0

\* C12: when the accumulated grid is entirely zero (no conformer below 10, or
\* an empty stamp), compute_CoDe ends in an error instead of dividing by the
\* zero maximum.
C12_ZeroGridIsError ==
    (Computed /\ (LowEnergy = {} \/ stamp_len_of(stamp_size) = 0)) =>
        code_status = "ValueError"

(***************************************************************************)
(* Claims about write_cubefile                                             *)
(***************************************************************************)
\* C13: write_cubefile called before compute_CoDe has been run always fails
\* with the exception; it never completes as a successful write.
C13_WriteBeforeComputeFails ==
    [][(WriteCubefile /\ code_status = "pending") =>
          write_status' = "Exception"]_vars

\* C13 witness: write_cubefile has been called while compute_CoDe had not
C13_Witness ==
    /\ code_status = "pending"
    /\ write_status = "Exception"
    /\ cube_file.exists

\* C14: the scalar-field block has exactly six values on every line except
\* possibly the last line.
C14_SixValuesPerLine ==
    write_status = "ok" =>
        \A n \in 1..(Len(cube_file.field) - 1) : Len(cube_file.field[n]) = 6

(***************************************************************************)
(* Claims about rmsd_py                                                    *)
(***************************************************************************)
\* C15: whenever Ga + Gb - 2*l_max is negative, whatever its magnitude,
\* rmsd_py returns 0 and not the square root of a negative number.
C15_NegativeClampedToZero ==
    (rmsd.kind \in {"zero", "number", "nan"} /\ negative(rmsd.s, rmsd.noise)) =>
        rmsd.kind = "zero"

C17_LengthMismatchIsError ==
    (rmsd.kind # "pending" /\ Len(coords1) # Len(coords2)) =>
        rmsd.kind = "ValueError"

\* C17 witness: an error reported for two non-empty sets of different lengths
C17_Witness ==
    /\ rmsd.kind = "ValueError"
    /\ Len(coords1) >= 1
    /\ Len(coords2) >= 1
    /\ Len(coords1) # Len(coords2)

(***************************************************************************)
(* Claims about the clustering inside a shard                              *)
(***************************************************************************)
\* the shard of loop pass `step`, as prune_conformers saw it
ShardAt(step) == structures_subset(Sharded, k, step)

\* the keep-mask entry of local index i (from 1) of the shard of pass `step`
KeptAt(step, i) == shard_mask[ShardBounds(Len(structures), k, step).lo + i]

\* i and j are joined by a chain of edges of es
RECURSIVE Joined(_, _, _, _)
Joined(i, j, es, n) ==
    \/ i = j
    \/ /\ n > 0
       /\ \E e \in es :
             \/ (e[1] = i /\ Joined(e[2], j, es, n - 1))
             \/ (e[2] = i /\ Joined(e[1], j, es, n - 1))

\* C18: in every shard, two local indices i < j whose RMSD is below max_rmsd
\* end in the same cluster and at most one of them is kept.
C18_SimilarPairNotBothKept ==
    (Returned /\ status = "ok") =>
        \A step \in 0..(k - 1) :
            \A i, j \in 1..Len(ShardAt(step)) :
                (i < j /\ kabsch_rmsd(ShardAt(step)[i], ShardAt(step)[j]) < max_rmsd)
                    => ~(KeptAt(step, i) /\ KeptAt(step, j))

\* C19: in every shard exactly one member of each connected component of the
\* graph of recorded matches is kept, and a local index in no edge is kept.
C19_OnePerComponent ==
    (Returned /\ status = "ok") =>
        \A step \in 0..(k - 1) :
            LET sub == ShardAt(step)
                es  == matches(sub, max_rmsd)
            IN  \A i \in 1..Len(sub) :
                    /\ i \notin GraphNodes(es) => KeptAt(step, i)
                    /\ i \in GraphNodes(es) =>
                          Cardinality({j \in 1..Len(sub) :
                              Joined(i, j, es, Len(sub)) /\ KeptAt(step, j)}) = 1

\* C19 witness: a shard with a component of three members, of which one is
\* kept, and an index in no edge
C19_Witness ==
    /\ Returned /\ status = "ok"
    /\ \E step \in 0..(k - 1) :
          LET sub == ShardAt(step)
              es  == matches(sub, max_rmsd)
          IN  /\ \E i \in 1..Len(sub) : i \notin GraphNodes(es) /\ KeptAt(step, i)
              /\ \E i \in GraphNodes(es) :
                    /\ Cardinality({j \in 1..Len(sub) :
                          Joined(i, j, es, Len(sub))}) = 3
                    /\ ~KeptAt(step, i)

\* C20: the member kept for a connected component is the one with the
\* smallest local index of the component, and local index 0 of every
\* non-empty shard is kept.
C20_SmallestIndexKept ==
    (Returned /\ status = "ok") =>
        \A step \in 0..(k - 1) :
            LET sub == ShardAt(step)
                es  == matches(sub, max_rmsd)
            IN  /\ Len(sub) >= 1 => KeptAt(step, 1)
                /\ \A i, j \in 1..Len(sub) :
                      (i < j /\ Joined(i, j, es, Len(sub))) => ~KeptAt(step, j)

Kept(m) == Cardinality({i \in 1..Len(m) : m[i]})

\* C21: with k = 1 every reordering of one ensemble retains the same number
\* of conformers.
C21_OrderIndependentCount ==
    (calls = 2 /\ k = 1 /\ status = "ok" /\ prev_status = "ok") =>
        Kept(mask) = Kept(prev_mask)

\* C22: a conformer is rejected only when another conformer of its own shard
\* has RMSD below the threshold to it; a conformer of another shard never
\* causes a rejection.
C22_RejectedHasShardPartner ==
    (Returned /\ status = "ok") =>
        \A step \in 0..(k - 1) :
            \A i \in 1..Len(ShardAt(step)) :
                ~KeptAt(step, i) =>
                    \E j \in 1..Len(ShardAt(step)) :
                        /\ j # i
                        /\ kabsch_rmsd(ShardAt(step)[i], ShardAt(step)[j]) < max_rmsd

\* C22 witness: two conformers below the threshold sit in different shards and
\* are both kept, while some shard rejects one of its own
C22_Witness ==
    /\ Returned /\ status = "ok" /\ k >= 2
    /\ \E s1, s2 \in 0..(k - 1) :
          /\ s1 # s2
          /\ \E i \in 1..Len(ShardAt(s1)), j \in 1..Len(ShardAt(s2)) :
                /\ kabsch_rmsd(ShardAt(s1)[i], ShardAt(s2)[j]) < max_rmsd
                /\ KeptAt(s1, i)
                /\ KeptAt(s2, j)
    /\ \E s \in 0..(k - 1) : \E i \in 1..Len(ShardAt(s)) : ~KeptAt(s, i)

(***************************************************************************)
(* Claims about the grid geometry of compute_CoDe                          *)
(***************************************************************************)
\* the voxel index computed for atom a of conformer i
PosOf(i, a) ==
    voxel_pos(atomcoords, stamp_len_of(stamp_size), atomcoords[i][a])

\* C23: for every atom of every contributing conformer and on each axis the
\* voxel index pos satisfies 0 <= pos and pos + stamp_len <= shape, so the
\* whole stamp lies inside the grid.
C23_StampInsideGrid ==
    Computed =>
        \A i \in LowEnergy : \A a \in 1..Len(atomcoords[i]) : \A axis \in 1..3 :
            /\ 0 <= PosOf(i, a)[axis]
            /\ PosOf(i, a)[axis] + stamp_len_of(stamp_size) <= box_shape[axis]

\* C23 witness: a stamp that ends exactly at the far face of the grid, for an
\* atom off the voxel lattice whose index was rounded up
C23_Witness ==
    /\ code_status = "ok"
    /\ stamp_len_of(stamp_size) >= 1
    /\ \E i \in LowEnergy : \E a \in 1..Len(atomcoords[i]) : \E axis \in 1..3 :
          /\ PosOf(i, a)[axis] + stamp_len_of(stamp_size) = box_shape[axis]
          /\ (atomcoords[i][a][axis] - min_of(atomcoords, axis)) % 2 = 1

\* Atom positions are kept up to a translation: compute_CoDe uses differences
\* of coordinates only, except for the origin.  self.atomcoords is relative to
\* the centroid of all atoms; NAtoms times that coordinate is an integer.
NAtoms == SumSeq([i \in 1..Len(atomcoords) |-> Len(atomcoords[i])])

AxisSum(axis) ==
    SumSeq([i \in 1..Len(atomcoords) |->
              SumSeq([a \in 1..Len(atomcoords[i]) |-> atomcoords[i][a][axis]])])

\* NAtoms * (coordinate of atom a of conformer i relative to the centroid)
FromCentroid(i, a, axis) == NAtoms * atomcoords[i][a][axis] - AxisSum(axis)

\* C24: the recorded origin is the position of grid cell (0,0,0) under the
\* atom-to-voxel mapping: for every atom and axis,
\* |origin + pos*voxel_dim - atom coordinate| <= voxel_dim/2 (voxel_dim is two
\* half voxels; both sides are multiplied by NAtoms).
C24_OriginLocatesCellZero ==
    code_status = "ok" =>
        \A i \in 1..Len(atomcoords) : \A a \in 1..Len(atomcoords[i]) :
            \A axis \in 1..3 :
                Abs(NAtoms * (ensemble_origin[axis] + 2 * PosOf(i, a)[axis])
                    - FromCentroid(i, a, axis)) <= NAtoms

(***************************************************************************)
(* Claims about the scalar field and the file of write_cubefile            *)
(***************************************************************************)
\* the values of the scalar-field block in the order of the file
Written == ConcatAll(cube_file.field)

\* cell c comes before cell d in row-major order
RowMajorBefore(c, d) ==
    \/ c[1] < d[1]
    \/ (c[1] = d[1] /\ c[2] < d[2])
    \/ (c[1] = d[1] /\ c[2] = d[2] /\ c[3] < d[3])

\* C25: a successful write_cubefile writes every grid cell exactly once, in
\* row-major order with the last axis varying fastest; the number of values
\* written is the product of the three grid dimensions.
C25_EveryCellOnceRowMajor ==
    write_status = "ok" =>
        /\ Len(Written) = box_shape[1] * box_shape[2] * box_shape[3]
        /\ \A c \in Cells(box_shape) : \E n \in 1..Len(Written) : Written[n] = c
        /\ \A n, m \in 1..Len(Written) :
              n < m => RowMajorBefore(Written[n], Written[m])

\* C25 witness: a written grid with two cells or more along every axis and
\* different lengths along two of them
C25_Witness ==
    /\ write_status = "ok"
    /\ \A axis \in 1..3 : box_shape[axis] >= 2
    /\ box_shape[1] # box_shape[3]
    /\ Len(Written) >= 12

\* C26: when write_cubefile fails because compute_CoDe has not been run, no
\* cube file has been created and a file of that name left by an earlier run
\* still has its old content.
C26_FailedWriteLeavesFile ==
    (code_status = "pending" /\ write_status = "Exception") =>
        (~cube_file.exists \/ cube_file = OldFile)

(***************************************************************************)
(* Claims about OptionSetter                                               *)
(***************************************************************************)
\* C27: after set_options returns without error, saddle = True implies
\* optimization = True, whatever the order of the keywords.
C27_SaddleNeedsOptimization ==
    (setter_status = "ok" /\ options.saddle) => options.optimization

\* C28: constructing an OptionSetter for a line with a word that is not in
\* keywords_list raises SyntaxError, and no option is set from such a line.
C28_UnknownKeywordRejected ==
    (setter_status # "pending"
        /\ \E i \in 1..Len(kw_line) : kw_line[i] \notin keywords_list) =>
        /\ setter_status = "SyntaxError"
        /\ options = Options

\* C29: applying the DEEP keyword completes without error and leaves
\* rmsd = 0.3, rotation_steps = 72, max_clashes = 1 and clash_thresh = 1.4.
C29_DeepSetsFourOptions ==
    (setter_status \notin {"pending", "constructed"} /\ kw_line = <<"DEEP">>) =>
        /\ setter_status = "ok"
        /\ options.rmsd = 3
        /\ options.rotation_steps = 72
        /\ options.max_clashes = 1
        /\ options.clash_thresh = 14

====
